---- MODULE Spec2Model ----
(***************************************************************************)
(* Model of src/src/generator.ts: the schema-to-declaration mapping       *)
(* engine (safeEnumKey, safeKey, refName, mapType, inlineObject,          *)
(* generateType and the mapping loop of generateFromYamlFile).            *)
(*                                                                         *)
(* Representation.                                                         *)
(*  - A JavaScript string that comes from the input (a schema name, a     *)
(*    property key, an enum value, a prefix) is a sequence of one-char    *)
(*    strings.  A text the code builds is a sequence of pieces: the       *)
(*    input characters and the literal fragments of the code's template   *)
(*    literals; the text is the concatenation of its pieces, and no       *)
(*    piece is the empty string, so a text is empty iff it is <<>>.       *)
(*  - An optional field is <<>> when absent and <<v>> when present.       *)
(*  - A Record<string, T> is the sequence of its <<key, value>> entries   *)
(*    in Object.entries order, keys unique.                               *)
(*  - A call yields a result [st, text]: st = "ok" with the returned      *)
(*    text, "throw" when the call raises, "diverge" when the recursion    *)
(*    re-enters a call that is still active with the same arguments       *)
(*    (the functions are pure, so such a call never returns).             *)
(***************************************************************************)
EXTENDS Integers, Sequences, FiniteSets, TLC

VARIABLES allSchemas, options, op, argSchema, argName, argStr, argBraces, out

vars == <<allSchemas, options, op, argSchema, argName, argStr, argBraces, out>>

(***************************************************************************)
(* Bounds of the model.                                                    *)
(***************************************************************************)
MaxLen == 3
MaxVariants == 2
MaxProps == 2

(***************************************************************************)
(* Optional values, results, text helpers.                                 *)
(***************************************************************************)
Absent == <<>>
Some(x) == <<x>>
Has(o) == Len(o) > 0
Get(o) == o[1]

Undefined == [undefined |-> TRUE]

Ok(t) == [st |-> "ok", text |-> t]
Throw == [st |-> "throw", text |-> <<>>]
Diverge == [st |-> "diverge", text |-> <<>>]
NoResult == [st |-> "none", text |-> <<>>]

RECURSIVE join(_, _)
join(texts, sep) ==
  IF Len(texts) = 0 THEN <<>>
  ELSE IF Len(texts) = 1 THEN texts[1]
  ELSE texts[1] \o <<sep>> \o join(Tail(texts), sep)

\* Array.prototype.map followed by join: the callbacks run left to right and
\* the first one that does not return ends the whole call.
MapJoin(results, sep) ==
  LET bad == {i \in 1..Len(results) : results[i].st # "ok"}
  IN  IF bad = {}
      THEN Ok(join([i \in 1..Len(results) |-> results[i].text], sep))
      ELSE LET first == CHOOSE i \in bad : \A j \in bad : i <= j
           IN  [st |-> results[first].st, text |-> <<>>]

(***************************************************************************)
(* Character classes of the regular expressions.                           *)
(***************************************************************************)
LowerSeq == <<"a","b","c","d","e","f","g","h","i","j","k","l","m",
              "n","o","p","q","r","s","t","u","v","w","x","y","z">>
UpperSeq == <<"A","B","C","D","E","F","G","H","I","J","K","L","M",
              "N","O","P","Q","R","S","T","U","V","W","X","Y","Z">>
Lower == {LowerSeq[i] : i \in 1..26}
Upper == {UpperSeq[i] : i \in 1..26}
Digit == {"0","1","2","3","4","5","6","7","8","9"}
Whitespace == {" ", "\t"}
WordChar == Lower \cup Upper \cup Digit \cup {"_"}

toUpperCase(s) ==
  [i \in 1..Len(s) |->
     IF s[i] \in Lower
     THEN UpperSeq[CHOOSE k \in 1..26 : LowerSeq[k] = s[i]]
     ELSE s[i]]

RECURSIVE TrimLeft(_)
TrimLeft(s) ==
  IF Len(s) > 0 /\ Head(s) \in Whitespace THEN TrimLeft(Tail(s)) ELSE s

RECURSIVE TrimRight(_)
TrimRight(s) ==
  IF Len(s) > 0 /\ s[Len(s)] \in Whitespace
  THEN TrimRight(SubSeq(s, 1, Len(s) - 1)) ELSE s

trim(s) == TrimRight(TrimLeft(s))

IsSep(c) == c = "-" \/ c \in Whitespace

RECURSIVE DropSeps(_)
DropSeps(s) == IF Len(s) > 0 /\ IsSep(Head(s)) THEN DropSeps(Tail(s)) ELSE s

\* replace(/[-\s]+/g, "_")
RECURSIVE ReplaceSepRuns(_)
ReplaceSepRuns(s) ==
  IF Len(s) = 0 THEN <<>>
  ELSE IF IsSep(Head(s)) THEN <<"_">> \o ReplaceSepRuns(DropSeps(Tail(s)))
  ELSE <<Head(s)>> \o ReplaceSepRuns(Tail(s))

\* replace(/([a-z0-9])([A-Z])/g, "$1_$2"); a match ends on an upper-case
\* letter, which cannot start the next match, so every such adjacent pair
\* is a match.
RECURSIVE SplitCamel(_)
SplitCamel(s) ==
  IF Len(s) < 2 THEN s
  ELSE IF s[1] \in (Lower \cup Digit) /\ s[2] \in Upper
       THEN <<s[1], "_">> \o SplitCamel(Tail(s))
       ELSE <<s[1]>> \o SplitCamel(Tail(s))

safeEnumKey(key) ==
  LET k1 == ReplaceSepRuns(trim(key))
      k2 == SplitCamel(k1)
      k3 == IF Len(k2) > 0 /\ k2[1] \in Digit THEN <<"_">> \o k2 ELSE k2
  IN  toUpperCase(k3)

\* /^[a-zA-Z_]\w*$/
IsBareIdentifier(key) ==
  /\ Len(key) > 0
  /\ key[1] \in (Lower \cup Upper \cup {"_"})
  /\ \A i \in 2..Len(key) : key[i] \in WordChar

safeKey(key) ==
  IF IsBareIdentifier(key) THEN key ELSE <<"'">> \o key \o <<"'">>

(***************************************************************************)
(* References.                                                             *)
(***************************************************************************)
RefPrefix == "#/components/schemas/"

\* String.prototype.replace(pattern, ""): removes the first occurrence.
RECURSIVE StripFirst(_, _)
StripFirst(s, piece) ==
  IF Len(s) = 0 THEN s
  ELSE IF Head(s) = piece THEN Tail(s)
  ELSE <<Head(s)>> \o StripFirst(Tail(s), piece)

\* options.interfacePrefix ?? "I"
InterfacePrefix(opts) ==
  IF Has(opts.interfacePrefix) THEN Get(opts.interfacePrefix) ELSE <<"I">>

\* truthiness of options.inlineRef
InlineRef(opts) == Has(opts.inlineRef) /\ Get(opts.inlineRef)

\* refName with the default prefix written in place of the configured one
refNameDefaultPrefix(ref, opts) == <<"I">> \o StripFirst(ref, RefPrefix)

refName(ref, opts) == InterfacePrefix(opts) \o StripFirst(ref, RefPrefix)

\* allSchemas[name]
Keys(mapping) == {mapping[i][1] : i \in 1..Len(mapping)}
Lookup(mapping, name) ==
  IF name \in Keys(mapping)
  THEN mapping[CHOOSE i \in 1..Len(mapping) : mapping[i][1] = name][2]
  ELSE Undefined

\* truthiness of schema.$ref: present and not the empty string
HasRef(schema) == Has(schema.ref) /\ Len(Get(schema.ref)) > 0

(***************************************************************************)
(* Schemas.  Every field of the Schema interface is optional.              *)
(***************************************************************************)
EmptySchema ==
  [type |-> Absent, enum |-> Absent, properties |-> Absent,
   required |-> Absent, oneOf |-> Absent, anyOf |-> Absent,
   allOf |-> Absent, ref |-> Absent, items |-> Absent]

(***************************************************************************)
(* mapType and inlineObject.  The extra argument `active` is the set of    *)
(* schema names whose inline expansion (line 77) is in progress on the     *)
(* call stack; it decides whether the recursion returns.                   *)
(***************************************************************************)
RECURSIVE mapTypeR(_, _, _, _)
RECURSIVE inlineObjectR(_, _, _, _, _)

\* schema.required?.includes(prop)
IsRequired(schema, prop) ==
  /\ Has(schema.required)
  /\ \E j \in 1..Len(Get(schema.required)) : Get(schema.required)[j] = prop

\* the array `lines` built from the last property to the first
inlineLinesReversed(schema, all, opts, active) ==
  LET props == Get(schema.properties)
      n == Len(props)
  IN  [i \in 1..n |->
        LET prop == props[n + 1 - i][1]
            required == IsRequired(schema, prop)
            typeStr == mapTypeR(props[n + 1 - i][2], all, opts, active)
        IN  IF typeStr.st = "ok"
            THEN Ok(<<"  ">> \o safeKey(prop)
                    \o (IF required THEN <<>> ELSE <<"?">>)
                    \o <<": ">> \o typeStr.text \o <<";">>)
            ELSE typeStr]

\* the array `lines` of inlineObject
inlineLines(schema, all, opts, active) ==
  LET props == Get(schema.properties)
  IN  [i \in 1..Len(props) |->
        LET prop == props[i][1]
            required == IsRequired(schema, prop)
            typeStr == mapTypeR(props[i][2], all, opts, active)
        IN  IF typeStr.st = "ok"
            THEN Ok(<<"  ">> \o safeKey(prop)
                    \o (IF required THEN <<>> ELSE <<"?">>)
                    \o <<": ">> \o typeStr.text \o <<";">>)
            ELSE typeStr]

inlineObjectR(schema, all, withBraces, opts, active) ==
  IF schema = Undefined THEN Throw      \* reading .properties of undefined
  ELSE IF ~Has(schema.properties) THEN Ok(<<"{}">>)
  ELSE LET r == MapJoin(inlineLines(schema, all, opts, active), "\n")
       IN  IF r.st = "ok" THEN Ok(<<"{\n">> \o r.text \o <<"\n}">>) ELSE r

\* the $ref branch recursing into mapType on the referenced schema
mapRefThroughMapType(schema, all, opts, active) ==
  IF InlineRef(opts)
  THEN LET name == StripFirst(Get(schema.ref), RefPrefix)
       IN  IF name \in active THEN Diverge
           ELSE mapTypeR(Lookup(all, name), all, opts, active \cup {name})
  ELSE Ok(refName(Get(schema.ref), opts))

\* the $ref branch of mapType
mapRef(schema, all, opts, active) ==
  IF InlineRef(opts)
  THEN LET name == StripFirst(Get(schema.ref), RefPrefix)
       IN  IF name \in active THEN Diverge
           ELSE inlineObjectR(Lookup(all, name), all, TRUE, opts,
                              active \cup {name})
  ELSE Ok(refName(Get(schema.ref), opts))

\* schema.X.map(s => mapType(s, allSchemas, options)).join(sep)
mapVariants(variants, sep, all, opts, active) ==
  MapJoin([i \in 1..Len(variants) |-> mapTypeR(variants[i], all, opts, active)],
          sep)

\* the switch on schema.type
mapPrimitive(schema, all, opts, active) ==
  LET type == IF Has(schema.type) THEN Get(schema.type) ELSE "undefined"
  IN  CASE type \in {"integer", "number"} -> Ok(<<"number">>)
        [] type = "string" ->
             IF Has(schema.enum) /\ Len(Get(schema.enum)) > 0
             THEN Ok(join([i \in 1..Len(Get(schema.enum)) |->
                             <<"\"">> \o Get(schema.enum)[i] \o <<"\"">>],
                          " | "))
             ELSE Ok(<<"string">>)
        [] type = "boolean" -> Ok(<<"boolean">>)
        [] type = "array" ->
             IF Has(schema.items)
             THEN LET r == mapTypeR(Get(schema.items), all, opts, active)
                  IN  IF r.st = "ok" THEN Ok(r.text \o <<"[]">>) ELSE r
             ELSE Ok(<<"any[]">>)
        [] type = "object" ->
             IF Has(schema.properties)
             THEN inlineObjectR(schema, all, TRUE, opts, active)
             ELSE Ok(<<"{ [key: string]: any }">>)
        [] OTHER -> Ok(<<"any">>)

mapTypeR(schema, all, opts, active) ==
  IF schema = Undefined THEN Ok(<<"any">>)
  ELSE IF HasRef(schema) THEN mapRef(schema, all, opts, active)
  ELSE IF Has(schema.oneOf)
       THEN mapVariants(Get(schema.oneOf), " | ", all, opts, active)
  ELSE IF Has(schema.anyOf)
       THEN mapVariants(Get(schema.anyOf), " | ", all, opts, active)
  ELSE IF Has(schema.allOf)
       THEN mapVariants(Get(schema.allOf), " & ", all, opts, active)
  ELSE mapPrimitive(schema, all, opts, active)

mapType(schema, all, opts) == mapTypeR(schema, all, opts, {})

inlineObject(schema, all, withBraces, opts) ==
  inlineObjectR(schema, all, withBraces, opts, {})

(***************************************************************************)
(* generateType.                                                           *)
(***************************************************************************)
\* s.$ref ? refName(s.$ref, options) : inlineObject(s, allSchemas, true, options)
declVariant(s, all, opts) ==
  IF HasRef(s) THEN Ok(refName(Get(s.ref), opts))
  ELSE inlineObject(s, all, TRUE, opts)

declVariants(variants, sep, all, opts) ==
  MapJoin([i \in 1..Len(variants) |-> declVariant(variants[i], all, opts)], sep)

\* `  ${safeEnumKey(v)} = "${v}",`
enumMember(v) == <<"  ">> \o safeEnumKey(v) \o <<" = \"">> \o v \o <<"\",">>

enumDecl(name, schema, opts) ==
  Ok(<<"export enum ">> \o InterfacePrefix(opts) \o name \o <<" {\n">>
     \o join([i \in 1..Len(Get(schema.enum)) |-> enumMember(Get(schema.enum)[i])],
             "\n")
     \o <<"\n}">>)

aliasDecl(name, body, opts) ==
  IF body.st = "ok"
  THEN Ok(<<"export type ">> \o InterfacePrefix(opts) \o name \o <<" = ">>
          \o body.text \o <<";">>)
  ELSE body

interfaceDecl(name, schema, all, opts) ==
  LET objStr == inlineObject(schema, all, TRUE, opts)
  IN  IF objStr.st = "ok"
      THEN Ok(<<"export interface ">> \o InterfacePrefix(opts) \o name
              \o <<" ">> \o objStr.text)
      ELSE objStr

generateType(name, schema, all, opts) ==
  IF Has(schema.enum) THEN enumDecl(name, schema, opts)
  ELSE IF Has(schema.oneOf) \/ Has(schema.anyOf)
       THEN aliasDecl(name,
                      declVariants(IF Has(schema.oneOf) THEN Get(schema.oneOf)
                                   ELSE Get(schema.anyOf), " | ", all, opts),
                      opts)
  ELSE IF Has(schema.allOf)
       THEN aliasDecl(name, declVariants(Get(schema.allOf), " & ", all, opts), opts)
  ELSE IF (Has(schema.type) /\ Get(schema.type) = "object") \/ Has(schema.properties)
       THEN interfaceDecl(name, schema, all, opts)
  ELSE Ok(<<"export type ">> \o InterfacePrefix(opts) \o name \o <<" = any;">>)

\* Object.entries(schemas).map(([name, schema]) => generateType(...)).join("\n\n")
generateFromYamlFile(all, opts) ==
  MapJoin([i \in 1..Len(all) |-> generateType(all[i][1], all[i][2], all, opts)],
          "\n\n")

(***************************************************************************)
(* Bounded input sets.                                                     *)
(***************************************************************************)
SeqsUpTo(S, n) == UNION {[1..k -> S] : k \in 0..n}

NameA == <<"A">>
NameB == <<"B">>
NameM == <<"M">>      \* never a key of the mapping

Ref(name) == <<RefPrefix>> \o name
RefSchema(name) == [EmptySchema EXCEPT !.ref = Some(Ref(name))]
Typed(t) == [EmptySchema EXCEPT !.type = Some(t)]
Str == Typed("string")
ArrayOf(s) == [EmptySchema EXCEPT !.type = Some("array"), !.items = Some(s)]
Props(ps) == [EmptySchema EXCEPT !.properties = Some(ps)]
Object(ps) == [EmptySchema EXCEPT !.type = Some("object"), !.properties = Some(ps)]
OneOf(vs) == [EmptySchema EXCEPT !.oneOf = Some(vs)]
AnyOf(vs) == [EmptySchema EXCEPT !.anyOf = Some(vs)]
AllOf(vs) == [EmptySchema EXCEPT !.allOf = Some(vs)]
Enum(vs) == [EmptySchema EXCEPT !.enum = Some(vs)]

PrimSet ==
  {EmptySchema, Typed("object"), Typed("array"), Typed("file"),
   Typed("integer"), Typed("number"), Typed("boolean"), Str,
   [Str EXCEPT !.enum = Some(<< <<"x">>, <<"y">> >>)],
   [Str EXCEPT !.enum = Some(<<>>)],
   ArrayOf(Str), ArrayOf(RefSchema(NameB)), ArrayOf(RefSchema(NameM))}

RefSet ==
  {RefSchema(NameA), RefSchema(NameB), RefSchema(NameM),
   RefSchema(<<>>),                                   \* "#/components/schemas/"
   [EmptySchema EXCEPT !.ref = Some(<<>>)],           \* $ref: ""
   [EmptySchema EXCEPT !.ref = Some(NameB)],          \* $ref: "B"
   [OneOf(<<Str>>) EXCEPT !.ref = Some(Ref(NameB))]}

EnumSet ==
  {Enum(vs) : vs \in {<<>>, << <<"x">> >>, << <<"u", "-", "n">>, <<"2", "f">> >>,
                      << <<"y">>, <<"x">>, <<"y">> >>, << <<>> >>}}

VariantSet == {Str, RefSchema(NameB)}
VariantSeqs == SeqsUpTo(VariantSet, MaxVariants)
CombSet ==
  {OneOf(vs) : vs \in VariantSeqs} \cup {AnyOf(vs) : vs \in VariantSeqs}
    \cup {AllOf(vs) : vs \in VariantSeqs}
    \cup {OneOf(<<RefSchema(NameM)>>), AllOf(<<Str, RefSchema(NameM)>>)}

PropKeySeq == << <<"a">>, <<"b">>, <<"c">>, <<"d">> >>
PropKeys == {PropKeySeq[i] : i \in 1..MaxProps}
PropTypes == {Str, RefSchema(NameB), RefSchema(NameM)}
PropSeqs ==
  {ps \in SeqsUpTo(PropKeys \X PropTypes, MaxProps) :
     \A i, j \in 1..Len(ps) : i # j => ps[i][1] # ps[j][1]}
RequiredSet == {Absent, Some(<< <<"a">> >>), Some(<< <<"b">>, <<"z">> >>)}
ObjectSet ==
  {[o EXCEPT !.required = r] :
     o \in {Props(ps) : ps \in PropSeqs} \cup {Object(ps) : ps \in PropSeqs},
     r \in RequiredSet}

\* every combination of the fields generateType and mapType dispatch on
MixedFields == {"enum", "oneOf", "anyOf", "allOf", "type", "properties"}
Mixed(F) ==
  [EmptySchema EXCEPT
     !.enum = IF "enum" \in F THEN Some(<< <<"x">> >>) ELSE Absent,
     !.oneOf = IF "oneOf" \in F THEN Some(<<RefSchema(NameB)>>) ELSE Absent,
     !.anyOf = IF "anyOf" \in F THEN Some(<<Str>>) ELSE Absent,
     !.allOf = IF "allOf" \in F THEN Some(<<RefSchema(NameB), Str>>) ELSE Absent,
     !.type = IF "type" \in F THEN Some("object") ELSE Absent,
     !.properties = IF "properties" \in F THEN Some(<< <<<<"a">>, Str>> >>) ELSE Absent]
MixedSet == {Mixed(F) : F \in SUBSET MixedFields}

InnerSet ==
  {ArrayOf(RefSchema(NameA)), OneOf(<<RefSchema(NameA), Str>>),
   Object(<< <<<<"b">>, RefSchema(NameB)>> >>),
   Props(<< <<<<"a">>, RefSchema(NameA)>> >>),
   Object(<< <<<<"a">>, RefSchema(NameA)>> >>)}
NestedSet ==
  InnerSet \cup {ArrayOf(s) : s \in InnerSet}
    \cup {Object(<< <<<<"x", "-", "y">>, s>> >>) : s \in InnerSet}
    \cup {OneOf(<<s, Str>>) : s \in InnerSet}
    \cup {AllOf(<<s>>) : s \in InnerSet}

SchemaSet == PrimSet \cup RefSet \cup EnumSet \cup CombSet \cup ObjectSet
               \cup MixedSet \cup NestedSet

\* the schemas bound to the second name, the target of the references to B
TargetSet ==
  {Str, EmptySchema, RefSchema(NameA), RefSchema(NameB),
   Object(<< <<<<"b">>, RefSchema(NameA)>> >>),
   Object(<< <<<<"b">>, Str>>, <<<<"a">>, ArrayOf(RefSchema(NameB))>> >>),
   Props(<< <<<<"b">>, Str>> >>),
   OneOf(<<Object(<< <<<<"b">>, RefSchema(NameA)>> >>)>>)}

Mappings == {<< <<NameA, a>>, <<NameB, b>> >> : a \in SchemaSet, b \in TargetSet}

OptionsSet ==
  [interfacePrefix : {Absent, Some(<<>>), Some(<<"T">>)},
   inlineRef : {Absent, Some(TRUE), Some(FALSE)}]

Values(mapping) == {mapping[i][2] : i \in 1..Len(mapping)}

(***************************************************************************)
(* The engine: one call of an exported or internal function on the parsed  *)
(* document.                                                               *)
(***************************************************************************)
Init ==
  /\ allSchemas \in Mappings
  /\ options \in OptionsSet
  /\ op = "none"
  /\ argSchema = Undefined
  /\ argName = <<>>
  /\ argStr = <<>>
  /\ argBraces = FALSE
  /\ out = NoResult

CallMapType ==
  /\ op = "none"
  /\ \E schema \in Values(allSchemas) \cup {Undefined} :
       /\ argSchema' = schema
       /\ out' = mapType(schema, allSchemas, options)
  /\ op' = "mapType"
  /\ UNCHANGED <<allSchemas, options, argName, argStr, argBraces>>

CallInlineObject ==
  /\ op = "none"
  /\ \E schema \in Values(allSchemas), withBraces \in BOOLEAN :
       /\ argSchema' = schema
       /\ argBraces' = withBraces
       /\ out' = inlineObject(schema, allSchemas, withBraces, options)
  /\ op' = "inlineObject"
  /\ UNCHANGED <<allSchemas, options, argName, argStr>>

CallGenerateType ==
  /\ op = "none"
  /\ \E i \in 1..Len(allSchemas) :
       /\ argName' = allSchemas[i][1]
       /\ argSchema' = allSchemas[i][2]
       /\ out' = generateType(allSchemas[i][1], allSchemas[i][2], allSchemas, options)
  /\ op' = "generateType"
  /\ UNCHANGED <<allSchemas, options, argStr, argBraces>>

CallGenerateFromYamlFile ==
  /\ op = "none"
  /\ out' = generateFromYamlFile(allSchemas, options)
  /\ op' = "generateFromYamlFile"
  /\ UNCHANGED <<allSchemas, options, argSchema, argName, argStr, argBraces>>

Next ==
  \/ CallMapType
  \/ CallInlineObject
  \/ CallGenerateType
  \/ CallGenerateFromYamlFile

Spec == Init /\ [][Next]_vars

(***************************************************************************)
(* The sanitizers and refName on bounded strings.                          *)
(***************************************************************************)
SanChars == {"a", "B", "2", "-", " ", "_", "."}
Examples ==
  {<<"u","s","e","r","-","n","a","m","e">>, <<"2","f","a">>,
   <<"u","s","e","r","N","a","m","e">>}
Strings == SeqsUpTo(SanChars, MaxLen) \cup Examples
RefStrings == {Ref(n) : n \in SeqsUpTo({"A", "b", "_"}, MaxLen)}
                \cup SeqsUpTo({"A", "/"}, MaxLen)

InitSan ==
  /\ allSchemas = <<>>
  /\ options \in OptionsSet
  /\ op = "none"
  /\ argSchema = Undefined
  /\ argName = <<>>
  /\ argStr = <<>>
  /\ argBraces = FALSE
  /\ out = NoResult

CallSafeEnumKey ==
  /\ op = "none"
  /\ \E key \in Strings :
       /\ argStr' = key
       /\ out' = Ok(safeEnumKey(key))
  /\ op' = "safeEnumKey"
  /\ UNCHANGED <<allSchemas, options, argSchema, argName, argBraces>>

CallSafeKey ==
  /\ op = "none"
  /\ \E key \in Strings :
       /\ argStr' = key
       /\ out' = Ok(safeKey(key))
  /\ op' = "safeKey"
  /\ UNCHANGED <<allSchemas, options, argSchema, argName, argBraces>>

CallRefName ==
  /\ op = "none"
  /\ \E ref \in RefStrings :
       /\ argStr' = ref
       /\ out' = Ok(refName(ref, options))
  /\ op' = "refName"
  /\ UNCHANGED <<allSchemas, options, argSchema, argName, argBraces>>

NextSan ==
  \/ CallSafeEnumKey
  \/ CallSafeKey
  \/ CallRefName

SpecSan == InitSan /\ [][NextSan]_vars

(***************************************************************************)
(* Reading a generated text back.                                          *)
(***************************************************************************)
\* brace depth in front of piece i
RECURSIVE DepthAt(_, _)
DepthAt(text, i) ==
  IF i <= 1 THEN 0
  ELSE DepthAt(text, i - 1)
         + (IF text[i - 1] = "{\n" THEN 1 ELSE IF text[i - 1] = "\n}" THEN -1 ELSE 0)

\* the field lines of the outermost object type of a text: a line starts with
\* the indent piece at depth 1, its key runs to the optional marker or colon
FieldStarts(text) == {i \in 1..Len(text) : text[i] = "  " /\ DepthAt(text, i) = 1}
FieldAt(text, i) ==
  LET k == CHOOSE k \in (i + 1)..Len(text) :
             /\ text[k] \in {"?", ": "}
             /\ \A j \in (i + 1)..(k - 1) : text[j] \notin {"?", ": "}
  IN  [key |-> SubSeq(text, i + 1, k - 1), optional |-> text[k] = "?"]

RECURSIVE SortedSeq(_)
SortedSeq(S) ==
  IF S = {} THEN <<>>
  ELSE LET m == CHOOSE x \in S : \A y \in S : x <= y
       IN  <<m>> \o SortedSeq(S \ {m})

Fields(text) ==
  LET starts == SortedSeq(FieldStarts(text))
  IN  [n \in 1..Len(starts) |-> FieldAt(text, starts[n])]

\* what the Schema says the field lines are
ExpectedFields(schema) ==
  LET props == Get(schema.properties)
  IN  [i \in 1..Len(props) |->
         [key |-> safeKey(props[i][1]),
          optional |-> ~IsRequired(schema, props[i][1])]]

\* the declarations of a generation run: the text split at the blank lines
RECURSIVE SplitOn(_, _)
SplitOn(text, sep) ==
  IF \A i \in 1..Len(text) : text[i] # sep THEN <<text>>
  ELSE LET k == CHOOSE k \in 1..Len(text) :
                  text[k] = sep /\ \A j \in 1..(k - 1) : text[j] # sep
       IN  <<SubSeq(text, 1, k - 1)>> \o SplitOn(SubSeq(text, k + 1, Len(text)), sep)

\* the longest run of name characters (upper-case letters here) from piece i
RECURSIVE NameRun(_, _)
NameRun(text, i) ==
  IF i > Len(text) \/ text[i] \notin Upper THEN <<>>
  ELSE <<text[i]>> \o NameRun(text, i + 1)

Headers == {"export enum ", "export type ", "export interface "}
IsDecl(decl) == Len(decl) > 0 /\ decl[1] \in Headers
DeclName(decl) == NameRun(decl, 2)

\* the type names a text uses: the runs of name characters that are not the
\* declared name; from its second line on, an enum declaration holds only
\* members
NameStarts(text, from) ==
  {i \in from..Len(text) : text[i] \in Upper /\ (i = 1 \/ text[i - 1] \notin Upper)}
UsedNames(text) ==
  IF IsDecl(text)
  THEN IF text[1] = "export enum " THEN {}
       ELSE {NameRun(text, i) : i \in NameStarts(text, 2 + Len(DeclName(text)))}
  ELSE {NameRun(text, i) : i \in NameStarts(text, 1)}

\* every $ref string of a schema, wherever it stands
RECURSIVE AllRefs(_)
AllRefs(schema) ==
  LET sub(field) == IF Has(field)
                    THEN UNION {AllRefs(Get(field)[i]) : i \in 1..Len(Get(field))}
                    ELSE {}
  IN  (IF Has(schema.ref) THEN {Get(schema.ref)} ELSE {})
        \cup sub(schema.oneOf) \cup sub(schema.anyOf) \cup sub(schema.allOf)
        \cup (IF Has(schema.items) THEN AllRefs(Get(schema.items)) ELSE {})
        \cup (IF Has(schema.properties)
              THEN UNION {AllRefs(Get(schema.properties)[i][2]) :
                            i \in 1..Len(Get(schema.properties))}
              ELSE {})

MappingRefs(mapping) == UNION {AllRefs(s) : s \in Values(mapping)}

\* `#/components/schemas/<key>` with <key> a key of the mapping
Resolvable(ref, mapping) ==
  /\ Len(ref) > 0
  /\ ref[1] = RefPrefix
  /\ Tail(ref) \in Keys(mapping)

(***************************************************************************)
(* The reference graphs of a mapping.                                      *)
(***************************************************************************)
Target(ref) == StripFirst(ref, RefPrefix)

\* the names a schema refers to anywhere in its tree
RefTargets(schema) == {Target(r) : r \in {q \in AllRefs(schema) : Len(q) > 0}}

\* the names whose inline expansion mapType(schema) starts itself
RECURSIVE MapExpands(_)
\* the names whose inline expansion inlineObject(schema) starts itself
PropExpands(schema) ==
  IF Has(schema.properties)
  THEN UNION {MapExpands(Get(schema.properties)[i][2]) :
                i \in 1..Len(Get(schema.properties))}
  ELSE {}
MapExpands(schema) ==
  LET each(vs) == UNION {MapExpands(vs[i]) : i \in 1..Len(vs)}
  IN  IF HasRef(schema) THEN {Target(Get(schema.ref))}
      ELSE IF Has(schema.oneOf) THEN each(Get(schema.oneOf))
      ELSE IF Has(schema.anyOf) THEN each(Get(schema.anyOf))
      ELSE IF Has(schema.allOf) THEN each(Get(schema.allOf))
      ELSE IF Has(schema.type) /\ Get(schema.type) = "array" /\ Has(schema.items)
           THEN MapExpands(Get(schema.items))
      ELSE IF Has(schema.type) /\ Get(schema.type) = "object"
           THEN PropExpands(schema)
      ELSE {}

\* the names whose inline expansion generateType(name, schema) starts itself
DeclExpands(schema) ==
  LET each(vs) == UNION {IF HasRef(vs[i]) THEN {} ELSE PropExpands(vs[i]) :
                           i \in 1..Len(vs)}
  IN  IF Has(schema.enum) THEN {}
      ELSE IF Has(schema.oneOf) THEN each(Get(schema.oneOf))
      ELSE IF Has(schema.anyOf) THEN each(Get(schema.anyOf))
      ELSE IF Has(schema.allOf) THEN each(Get(schema.allOf))
      ELSE PropExpands(schema)

\* the edges of the two graphs: from a key of the mapping to the names its
\* schema refers to, and to the names its inline expansion expands in turn
RefEdges(mapping) ==
  [m \in Keys(mapping) |-> RefTargets(Lookup(mapping, m))]
ExpandEdges(mapping) ==
  [m \in Keys(mapping) |-> PropExpands(Lookup(mapping, m))]

\* the names reachable from the set `from` along `edges`, in at most n steps
RECURSIVE ReachIn(_, _, _)
ReachIn(from, edges, n) ==
  IF n = 0 THEN from
  ELSE LET next == from \cup UNION {edges[m] : m \in from \cap DOMAIN edges}
       IN  IF next = from THEN from ELSE ReachIn(next, edges, n - 1)

Reach(from, edges) == ReachIn(from, edges, Cardinality(DOMAIN edges) + 1)

\* a name reachable from `from` lies on a cycle of `edges`
CycleFrom(from, edges) ==
  \E m \in Reach(from, edges) \cap DOMAIN edges : m \in Reach(edges[m], edges)

\* a name reachable from `from` is not a key of the mapping
DanglingFrom(from, edges) == Reach(from, edges) \ DOMAIN edges # {}

(***************************************************************************)
(* Properties.                                                             *)
(***************************************************************************)
Returned == out.st = "ok"
RefOf(schema) == Get(schema.ref)

\* C1: mapType and generateType return a non-empty string for every schema
\* shape and every configuration; neither raises nor returns "" (whether a
\* call terminates at all is the subject of C9).
C1_Totality ==
  (op \in {"mapType", "generateType"} /\ out.st # "diverge")
    => (Returned /\ Len(out.text) > 0)

\* C2: mapType on a schema whose $ref names no schema of the mapping returns
\* a type expression instead of raising, and a generation run still yields
\* one declaration per schema name.
C2_DanglingRefDegrades ==
  /\ (op = "mapType" /\ argSchema # Undefined /\ HasRef(argSchema)
        /\ Target(RefOf(argSchema)) \notin Keys(allSchemas))
       => Returned
  /\ (op = "generateFromYamlFile" /\ out.st # "diverge")
       => (Returned /\ Len(SplitOn(out.text, "\n\n")) = Len(allSchemas))

\* C3: mapType on {$ref: S} yields the declared name of S (prefix + S) when
\* inlineRef is off and the type expression of the schema S itself when
\* inlineRef is on (`string` for S = {type: "string"}).
C3_RefRoundTrip ==
  (op = "mapType" /\ argSchema # Undefined /\ HasRef(argSchema)
     /\ Resolvable(RefOf(argSchema), allSchemas))
    => IF InlineRef(options)
       THEN out = mapType(Lookup(allSchemas, Target(RefOf(argSchema))),
                          allSchemas, options)
       ELSE out = Ok(InterfacePrefix(options) \o Target(RefOf(argSchema)))

\* the pieces of a text outside every brace pair
TopPieces(text) == {text[i] : i \in {j \in 1..Len(text) : DepthAt(text, j) = 0}}

ExpectedKind(schema) ==
  IF Has(schema.enum) THEN "enum"
  ELSE IF Has(schema.oneOf) \/ Has(schema.anyOf) THEN "union"
  ELSE IF Has(schema.allOf) THEN "intersection"
  ELSE IF (Has(schema.type) /\ Get(schema.type) = "object") \/ Has(schema.properties)
       THEN "interface"
  ELSE "any"

ShapeIs(kind, text) ==
  /\ Len(text) > 0
  /\ CASE kind = "enum" -> text[1] = "export enum " /\ text[Len(text)] = "\n}"
       [] kind = "interface" -> text[1] = "export interface "
       [] kind = "any" -> text[1] = "export type " /\ text[Len(text)] = " = any;"
       [] kind = "union" ->
            /\ text[1] = "export type " /\ text[Len(text)] = ";"
            /\ " & " \notin TopPieces(text)
       [] kind = "intersection" ->
            /\ text[1] = "export type " /\ text[Len(text)] = ";"
            /\ " | " \notin TopPieces(text)

\* C4: for every schema generateType emits the declaration chosen by the
\* precedence enum > oneOf/anyOf > allOf > object/properties > any alias
\* (whether a call terminates at all is the subject of C9).
C4_DeclarationKind ==
  (op = "generateType" /\ out.st # "diverge")
    => (Returned /\ ShapeIs(ExpectedKind(argSchema), out.text))

\* the combinator mapType and generateType render, if any
HasComb(schema) == Has(schema.oneOf) \/ Has(schema.anyOf) \/ Has(schema.allOf)
CombOf(schema) ==
  IF Has(schema.oneOf) THEN Get(schema.oneOf)
  ELSE IF Has(schema.anyOf) THEN Get(schema.anyOf) ELSE Get(schema.allOf)
CombSep(schema) ==
  IF Has(schema.oneOf) \/ Has(schema.anyOf) THEN " | " ELSE " & "
IsObjectType(schema) == Has(schema.type) /\ Get(schema.type) = "object"

\* C5: the field lines of a rendered object type are the keys of the
\* properties mapping, in its order, one line each; the variants of a
\* rendered union or intersection are the renderings of the input variants,
\* in input order, none dropped, merged or moved.
C5_OrderPreserved ==
  /\ (op = "inlineObject" /\ Returned /\ Has(argSchema.properties))
       => [i \in 1..Len(Fields(out.text)) |-> Fields(out.text)[i].key]
            = [i \in 1..Len(Get(argSchema.properties)) |->
                 safeKey(Get(argSchema.properties)[i][1])]
  /\ (op = "generateType" /\ Returned /\ ExpectedKind(argSchema) = "interface"
        /\ Has(argSchema.properties))
       => [i \in 1..Len(Fields(out.text)) |-> Fields(out.text)[i].key]
            = [i \in 1..Len(Get(argSchema.properties)) |->
                 safeKey(Get(argSchema.properties)[i][1])]
  /\ (op = "mapType" /\ Returned /\ argSchema # Undefined /\ ~HasRef(argSchema)
        /\ ~HasComb(argSchema) /\ IsObjectType(argSchema)
        /\ Has(argSchema.properties))
       => [i \in 1..Len(Fields(out.text)) |-> Fields(out.text)[i].key]
            = [i \in 1..Len(Get(argSchema.properties)) |->
                 safeKey(Get(argSchema.properties)[i][1])]
  /\ (op = "mapType" /\ Returned /\ argSchema # Undefined /\ ~HasRef(argSchema)
        /\ HasComb(argSchema))
       => out.text =
            join([i \in 1..Len(CombOf(argSchema)) |->
                    mapType(CombOf(argSchema)[i], allSchemas, options).text],
                 CombSep(argSchema))
  /\ (op = "generateType" /\ Returned
        /\ ExpectedKind(argSchema) \in {"union", "intersection"})
       => out.text =
            <<"export type ">> \o InterfacePrefix(options) \o argName \o <<" = ">>
              \o join([i \in 1..Len(CombOf(argSchema)) |->
                         declVariant(CombOf(argSchema)[i], allSchemas, options).text],
                      CombSep(argSchema))
              \o <<";">>

C5_Witness ==
  /\ op = "inlineObject"
  /\ Returned
  /\ Has(argSchema.properties)
  /\ Len(Get(argSchema.properties)) >= 2
  /\ Len(Fields(out.text)) >= 2

\* C6: for every object schema each key of properties is emitted as exactly
\* one field line, carrying `?` iff the key is not in required; an entry of
\* required that is no key adds no field and no failure (whether a call
\* terminates at all is the subject of C9).
C6_Optionality ==
  (op = "inlineObject" /\ Has(argSchema.properties) /\ out.st # "diverge")
    => (Returned /\ Fields(out.text) = ExpectedFields(argSchema))

\* C7: safeEnumKey returns, for any string, a non-empty identifier of
\* upper-case letters, digits and underscores that does not start with a
\* digit.
C7_EnumKeyIsIdentifier ==
  op = "safeEnumKey"
    => /\ Len(out.text) > 0
       /\ out.text[1] \notin Digit
       /\ \A i \in 1..Len(out.text) : out.text[i] \in Upper \cup Digit \cup {"_"}

\* C8: with inlineRef on, no text of mapType or generateType uses the
\* declared name (prefix + referenced name) of a $ref of the mapping.
C8_InlineRefExpandsAll ==
  (op \in {"mapType", "generateType"} /\ InlineRef(options) /\ Returned)
    => \A r \in MappingRefs(allSchemas) :
         Len(r) > 0 => refName(r, options) \notin UsedNames(out.text)

\* the schema the call started from expands the names `from`
CycleDecides(from) ==
  LET edges == ExpandEdges(allSchemas)
      cyclic == InlineRef(options) /\ CycleFrom(from, edges)
  IN  /\ out.st = "diverge" => cyclic
      /\ cyclic => ~Returned
      /\ (cyclic /\ ~DanglingFrom(from, edges)) => out.st = "diverge"

C10_ReferentialIntegrity ==
  (op = "generateFromYamlFile" /\ ~InlineRef(options)
     /\ \A r \in MappingRefs(allSchemas) : Resolvable(r, allSchemas))
    => /\ Returned
       /\ LET decls == SplitOn(out.text, "\n\n")
          IN  /\ Len(decls) = Len(allSchemas)
              /\ \A k \in 1..Len(decls) :
                   DeclName(decls[k]) = InterfacePrefix(options) \o allSchemas[k][1]
              /\ \A d \in 1..Len(decls) : \A r \in UsedNames(decls[d]) :
                   Cardinality({k \in 1..Len(decls) : DeclName(decls[k]) = r}) = 1

C10_Witness ==
  /\ op = "generateFromYamlFile"
  /\ ~InlineRef(options)
  /\ options.interfacePrefix = Some(<<"T">>)
  /\ MappingRefs(allSchemas) # {}
  /\ \A r \in MappingRefs(allSchemas) : Resolvable(r, allSchemas)
  /\ Returned
  /\ <<"T", "B">> \in UsedNames(SplitOn(out.text, "\n\n")[1])

(***************************************************************************)
(* Supporting invariants: what the dispatch of generateType and the        *)
(* optionality of inlineObject do whenever the call returns.               *)
(***************************************************************************)
DeclarationKindWhenReturned ==
  (op = "generateType" /\ Returned) => ShapeIs(ExpectedKind(argSchema), out.text)

OptionalityWhenReturned ==
  (op = "inlineObject" /\ Has(argSchema.properties) /\ Returned)
    => Fields(out.text) = ExpectedFields(argSchema)

RequiredNeverDecidesFailure ==
  op = "inlineObject"
    => out.st = inlineObject([argSchema EXCEPT !.required = Absent],
                             allSchemas, TRUE, options).st

====
